---------------------------- MODULE Spec2Model ----------------------------
(**************************************************************************)
(* Model of fast_trade/archive/delta_api.py: the bulk OHLCV downloader    *)
(* get_delta_klines, its window arithmetic, its request loop with the     *)
(* rate-limit back-off and the error counter, the periodic checkpoint,    *)
(* the status records, and the normaliser delta_kline_to_df.              *)
(*                                                                        *)
(* Datetimes (start_date, end_date, curr_date, now) are counted in ticks, *)
(* TicksPerSecond ticks to the second, so that int(dt.timestamp()) is a   *)
(* real truncation.  Unix timestamps (request parameters, candle times,   *)
(* the X-RATE-LIMIT-RESET header, int(time.time())) are whole seconds.    *)
(**************************************************************************)
EXTENDS Integers, Sequences, FiniteSets, TLC

(* ------------------------------ bounds -------------------------------- *)

\* ticks per second of the datetime values of the model
TicksPerSecond == 2
\* at most this many TransientError responses (HTTP) in one fetch
MaxTransient == 4
\* at most this many HTTP 429 responses in one fetch
MaxRateLimited == 2
\* inputs that need more windows than this are not explored
MaxWindows == 31
\* rows in one successful response
MaxCandles == 2

(* ------------------------- program constants -------------------------- *)

CANDLES_PER_REQUEST == 1000
RATE_LIMIT_FALLBACK == 60
ERROR_BUDGET == 3
CHECKPOINT_EVERY == 30
DEFAULT_MINUTES == 1
\* API_DELAY, 0.3 s unless DELTA_API_DELAY is set, in milliseconds
API_DELAY_MS == 300
\* the 0.1 s of lines 221-222, in microseconds
MIN_SLEEP == 100000
\* one second of random.randint(1, 3), in microseconds
SECOND_US == 1000000
\* the largest value of random.randint(1, 3)
MAX_EXTRA == 3
\* positional arguments of the store_func call, line 228
STORE_ARGS == 3
\* positional parameters of the default store_func, lambda x, y (line 112)
DEFAULT_STORE_PARAMS == 2

SUPPORTED_TIMEFRAMES ==
  {"1m", "3m", "5m", "15m", "30m", "1h", "2h", "4h", "6h", "12h",
   "1d", "3d", "1w", "1M"}

resolution_map ==
  [r \in SUPPORTED_TIMEFRAMES |->
     CASE r = "1m"  -> 1
       [] r = "3m"  -> 3
       [] r = "5m"  -> 5
       [] r = "15m" -> 15
       [] r = "30m" -> 30
       [] r = "1h"  -> 60
       [] r = "2h"  -> 120
       [] r = "4h"  -> 240
       [] r = "6h"  -> 360
       [] r = "12h" -> 720
       [] r = "1d"  -> 1440
       [] r = "3d"  -> 4320
       [] r = "1w"  -> 10080
       [] r = "1M"  -> 43200]

(* --------------------------- pure functions --------------------------- *)

Min(a, b) == IF a < b THEN a ELSE b
Max(a, b) == IF a > b THEN a ELSE b

\* req.headers.get("X-RATE-LIMIT-RESET"): None when the header is absent,
\* else its value, unix seconds
NoHeader == [present |-> FALSE, value |-> 0]
Header(v) == [present |-> TRUE, value |-> v]

\* the value of status_obj before status_update was ever called
NoStatus == [perc_complete |-> 0, call_count |-> 0, total_calls |-> 0]

\* mutant: the validation of line 132 left out
SupportedResolution_NoCheck(resolution) == TRUE

\* `resolution in SUPPORTED_TIMEFRAMES`
SupportedResolution(resolution) == resolution \in SUPPORTED_TIMEFRAMES

\* resolution_map.get(resolution, 1)
_resolution_to_minutes(resolution) ==
  IF resolution \in DOMAIN resolution_map
    THEN resolution_map[resolution]
    ELSE DEFAULT_MINUTES

\* timedelta(minutes = resolution_minutes * CANDLES_PER_REQUEST), in ticks
TimeIncrement(resolution) ==
  _resolution_to_minutes(resolution) * CANDLES_PER_REQUEST * 60 * TicksPerSecond

\* now.replace(second=0, microsecond=0)
FloorMinute(t) == (t \div (60 * TicksPerSecond)) * (60 * TicksPerSecond)

\* int(dt.timestamp()): whole seconds, the fraction dropped
Timestamp(t) == t \div TicksPerSecond

\* mutant: end_date is never clamped
ClampEnd_NoClamp(end, t) == end

\* `if end_date > now: end_date = now.replace(second=0, microsecond=0)`
ClampEnd(end, t) == IF end > t THEN FloorMinute(t) ELSE end

\* math.ceil(a / b) for b > 0
CeilDiv(a, b) == -((-a) \div b)

\* mutant: the number of calls rounded down
NumCalls_Floor(start, end, resolution) ==
  (end - start) \div TimeIncrement(resolution)

\* mutant: the number of calls as whole windows plus one
NumCalls_PlusOne(start, end, resolution) ==
  (end - start) \div TimeIncrement(resolution) + 1

\* math.ceil(total_duration_minutes / (resolution_minutes * CANDLES_PER_REQUEST))
NumCalls(start, end, resolution) ==
  CeilDiv(end - start, TimeIncrement(resolution))

\* mutant: the last window is not truncated to end_date
NextEndDate_NoTruncate(curr, end, resolution) ==
  curr + TimeIncrement(resolution)

\* next_end_date = curr_date + time_increment, cut to end_date
NextEndDate(curr, end, resolution) ==
  IF curr + TimeIncrement(resolution) > end
    THEN end
    ELSE curr + TimeIncrement(resolution)

\* mutant: the cursor advances whatever the response
CursorAfter_Always(outcome, curr, next_end) == next_end

\* curr_date = next_end_date happens on HTTP 200 with success only
CursorAfter(outcome, curr, next_end) ==
  IF outcome = "Success" THEN next_end ELSE curr

\* mutant: the rows of any HTTP 200 body are appended
BufferAfter_AnyBody(outcome, buffer, rows) ==
  IF outcome \in {"Success", "ApiError"} THEN buffer \o rows ELSE buffer

\* klines.extend(candles) happens on HTTP 200 with success only
BufferAfter(outcome, buffer, rows) ==
  IF outcome = "Success" THEN buffer \o rows ELSE buffer

\* mutant: store_func is called inside the try block, its exception caught
PcAfterStore_Caught(store_ok) == IF store_ok THEN "loop" ELSE "broke"

\* store_func is called outside the try block (line 228): its exception
\* leaves get_delta_klines
PcAfterStore(store_ok) == IF store_ok THEN "loop" ELSE "raised"

\* the divisions of lines 233 (by num_calls) and 239 (by total_api_calls)
\* raise ZeroDivisionError
DivisionRaises(total, num) == num = 0 \/ total = 0

\* mutant: a reset time in the past is slept as it is
RateLimitWait_NoFloor(reset_time, t) ==
  IF reset_time.present THEN reset_time.value - t ELSE RATE_LIMIT_FALLBACK

\* seconds slept after an HTTP 429: int(reset_time) - int(time.time()) when
\* that is positive, nothing when it is not, 60 without the header
RateLimitWait(reset_time, t) ==
  IF reset_time.present
    THEN IF reset_time.value - t > 0 THEN reset_time.value - t ELSE 0
    ELSE RATE_LIMIT_FALLBACK

\* error_count after a response: reset at line 181, then += 1 on an API
\* error (200, success false) or an HTTP error (not 200, not 429)
ErrorCountAfter(outcome) ==
  IF outcome \in {"ApiError", "HttpError"} THEN 0 + 1 ELSE 0

\* `if error_count > 3: raise`
BudgetExceeded(ec) == ec > ERROR_BUDGET

\* round(total_api_calls / num_calls * 100, 2), in hundredths of a percent
\* (round half to even, as Python rounds)
PercComplete(total, num) ==
  LET n == total * 10000
      q == n \div num
      r == n % num
  IN  IF 2 * r > num \/ (2 * r = num /\ q % 2 = 1) THEN q + 1 ELSE q

\* the rows of a successful response for [s, e]: n candles, the first at s,
\* the last (when n > 1) at e, the boundary shared with the next window
Candles(s, e, n) ==
  [i \in 1..n |->
     <<IF i = 1 THEN s ELSE IF i = n THEN e ELSE Min(s + i - 1, e), 1>>]

\* mutant: the 0.1 s are never added
Sleeper_NoFloor(draw, delay, total, extra) ==
  IF total % CHECKPOINT_EVERY = 0
    THEN draw * delay + extra * SECOND_US
    ELSE draw * delay

\* lines 220-226: sleeper = random.random() * API_DELAY, plus 0.1 s when
\* below 0.1 s, plus random.randint(1, 3) s at a checkpoint; draw in
\* thousandths, delay in milliseconds, the result in microseconds
Sleeper(draw, delay, total, extra) ==
  LET base == draw * delay
      floored == IF base < MIN_SLEEP THEN base + MIN_SLEEP ELSE base
  IN  IF total % CHECKPOINT_EVERY = 0
        THEN floored + extra * SECOND_US
        ELSE floored

(* ----------------------------- normaliser ----------------------------- *)

\* mutant: rows of the same time count as duplicates
DropDuplicates_ByTime(rows) ==
  LET indexed == [i \in 1..Len(rows) |-> <<i, rows[i]>>]
      IsFirst(p) == \A j \in 1..(p[1] - 1) : rows[j][1] # p[2][1]
      kept == SelectSeq(indexed, IsFirst)
  IN  [i \in 1..Len(kept) |-> kept[i][2]]

\* DataFrame.drop_duplicates(): of equal rows the first is kept, the rows
\* that stay are in their order
DropDuplicates(rows) ==
  LET indexed == [i \in 1..Len(rows) |-> <<i, rows[i]>>]
      IsFirst(p) == \A j \in 1..(p[1] - 1) : rows[j] # p[2]
      kept == SelectSeq(indexed, IsFirst)
  IN  [i \in 1..Len(kept) |-> kept[i][2]]

\* lines 282-285: the index is pd.to_datetime(time, unit='s'), a datetime
\* (ticks), and the column time is dropped; the other columns stay
SetIndex(rows) ==
  [i \in 1..Len(rows) |->
     [index |-> rows[i][1] * TicksPerSecond, close |-> rows[i][2]]]

\* the raw rows [time, ...] of a series: the index back in unix seconds
RawRowsOf(frame) ==
  [i \in 1..Len(frame) |-> <<Timestamp(frame[i].index), frame[i].close>>]

\* Index.is_monotonic_increasing (equal neighbours allowed)
IsMonotonic(frame) ==
  \A i \in 1..(Len(frame) - 1) : frame[i].index <= frame[i + 1].index

\* insertion of one entry by its index, before the entries of the same index
RECURSIVE InsertBeforeEqual(_, _)
InsertBeforeEqual(sorted, entry) ==
  IF sorted = <<>> THEN <<entry>>
  ELSE IF sorted[Len(sorted)].index < entry.index
         THEN Append(sorted, entry)
         ELSE Append(InsertBeforeEqual(SubSeq(sorted, 1, Len(sorted) - 1), entry),
                     sorted[Len(sorted)])

RECURSIVE SortBeforeEqual(_)
SortBeforeEqual(frame) ==
  IF frame = <<>> THEN <<>>
  ELSE InsertBeforeEqual(SortBeforeEqual(SubSeq(frame, 1, Len(frame) - 1)),
                         frame[Len(frame)])

\* mutant: a sort that always runs and turns entries of equal index round
SortIndex_Unstable(frame) == SortBeforeEqual(frame)

\* insertion of one entry by its index, after the entries of the same index
RECURSIVE InsertByTime(_, _)
InsertByTime(sorted, entry) ==
  IF sorted = <<>> THEN <<entry>>
  ELSE IF sorted[Len(sorted)].index <= entry.index
         THEN Append(sorted, entry)
         ELSE Append(InsertByTime(SubSeq(sorted, 1, Len(sorted) - 1), entry),
                     sorted[Len(sorted)])

\* the sort of the entries by index, entries of equal index in their order
\* (numpy sorts the short arrays of this model by insertion)
RECURSIVE SortByIndex(_)
SortByIndex(frame) ==
  IF frame = <<>> THEN <<>>
  ELSE InsertByTime(SortByIndex(SubSeq(frame, 1, Len(frame) - 1)),
                    frame[Len(frame)])

\* DataFrame.sort_index(): a frame whose index is monotonic already is
\* returned as it is, any other is sorted
SortIndex(frame) ==
  IF IsMonotonic(frame) THEN frame ELSE SortByIndex(frame)

\* delta_kline_to_df: empty for no rows, else de-duplicate the rows, make
\* the time the index and sort by it
delta_kline_to_df(rows) ==
  IF rows = <<>> THEN <<>> ELSE SortIndex(SetIndex(DropDuplicates(rows)))

(* ------------------------------- state -------------------------------- *)

VARIABLES
  resolution,       \* argument
  start_date,       \* argument, ticks
  in_end,           \* argument end_date as passed, ticks
  now,              \* datetime.now() read at line 146, ticks
  candles,          \* rows the endpoint puts in each successful response
  store_params,     \* argument store_func: the positional parameters it takes
  pc,               \* "start", "loop", "broke", "returned", "raised"
  end_date,         \* end_date after line 147
  curr_date,        \* the cursor
  num_calls,
  total_api_calls,
  error_count,
  klines,           \* the accumulation buffer
  status_obj,       \* the last record given to status_update
  status_calls,     \* calls of status_update
  store_calls,      \* calls of store_func that returned
  stored,           \* the series given to the last store_func call
  result,           \* the series returned
  raised,           \* the error that reached the caller, or "none"
  requests,         \* calls of requests.get
  req,              \* start and end parameter of the last request
  outcome,          \* what the last request ended in
  reset_hdr,        \* X-RATE-LIMIT-RESET of the last response, if a 429
  clock,            \* int(time.time()) read at line 199 for it
  wait_time,        \* seconds slept at lines 202, 205 for it
  windows,          \* the windows fetched with success, in order
  windowErrors,     \* TransientError responses for the current window
  overBudget,       \* some window had more than ERROR_BUDGET of them
  nTransient,       \* TransientError responses so far
  nRateLimited,     \* HTTP 429 responses so far
  stage,            \* where a run of one of the pure functions is
  raw_rows,         \* delta_kline_to_df: the rows given
  series,           \* delta_kline_to_df: the series returned for them
  series_again,     \* delta_kline_to_df: the series for the rows of series
  api_delay,        \* API_DELAY, milliseconds
  random_draw,      \* random.random(), thousandths
  sleeper           \* the pacing delay slept at line 245, microseconds

vars ==
  <<resolution, start_date, in_end, now, candles, store_params, pc, end_date, curr_date,
    num_calls, total_api_calls, error_count, klines, status_obj,
    status_calls, store_calls, stored, result, raised, requests, req,
    outcome, reset_hdr, clock, wait_time, windows, windowErrors,
    overBudget, nTransient, nRateLimited, stage, raw_rows, series,
    series_again, api_delay, random_draw, sleeper>>

pureVars ==
  <<stage, raw_rows, series, series_again, api_delay, random_draw, sleeper>>

inputVars == <<resolution, start_date, in_end, now, candles, store_params>>

(* ------------------------------- inputs ------------------------------- *)

Second == TicksPerSecond
Hour == 3600 * TicksPerSecond

\* one token that is not supported, and supported ones
Resolutions == {"1m", "1h", "7m"}

Starts == {0, 1, 260000 * Second}
Ends == {2, 60000 * Second, 31 * 60000 * Second, 2001 * Hour}
Nows == {130001 * Second + 1, 3000 * Hour}

\* int(time.time()) and X-RATE-LIMIT-RESET values, unix seconds
Clocks == {1000}
ResetHeaders == {NoHeader, Header(995), Header(1000), Header(1005)}

\* the range to fetch needs no more than MaxWindows windows
InputFits(r, start, end, t) ==
  LET minutes == IF r \in SUPPORTED_TIMEFRAMES THEN resolution_map[r] ELSE 1
  IN  Min(end, t) - start <= MaxWindows * minutes * 60000 * TicksPerSecond

\* the variables of get_delta_klines before the call
FetchStart ==
  /\ pc = "start"
  /\ end_date = in_end
  /\ curr_date = start_date
  /\ num_calls = 0
  /\ total_api_calls = 0
  /\ error_count = 0
  /\ klines = <<>>
  /\ status_obj = NoStatus
  /\ status_calls = 0
  /\ store_calls = 0
  /\ stored = <<>>
  /\ result = <<>>
  /\ raised = "none"
  /\ requests = 0
  /\ req = [start |-> 0, end |-> 0]
  /\ outcome = "none"
  /\ reset_hdr = NoHeader
  /\ clock = 0
  /\ wait_time = 0
  /\ windows = <<>>
  /\ windowErrors = 0
  /\ overBudget = FALSE
  /\ nTransient = 0
  /\ nRateLimited = 0

\* no run of delta_kline_to_df or of the pacing on its own
PureIdle ==
  /\ stage = "idle"
  /\ raw_rows = <<>>
  /\ series = <<>>
  /\ series_again = <<>>
  /\ api_delay = API_DELAY_MS
  /\ random_draw = 0
  /\ sleeper = 0

Init ==
  /\ resolution \in Resolutions
  /\ start_date \in Starts
  /\ in_end \in Ends
  /\ start_date < in_end
  /\ now \in Nows
  /\ candles \in 0..MaxCandles
  /\ store_params = STORE_ARGS
  /\ InputFits(resolution, start_date, in_end, now)
  /\ FetchStart
  /\ PureIdle

(* ------------------------------ actions ------------------------------- *)

\* lines 128-155: validation, clamping of end_date, the estimate num_calls
Call ==
  /\ pc = "start"
  /\ IF ~SupportedResolution(resolution)
       THEN /\ pc' = "raised"
            /\ raised' = "ValueError"
            /\ UNCHANGED <<end_date, curr_date, num_calls, total_api_calls,
                           klines>>
       ELSE /\ pc' = "loop"
            /\ raised' = raised
            /\ curr_date' = start_date
            /\ end_date' = ClampEnd(in_end, now)
            /\ num_calls' = NumCalls(start_date, ClampEnd(in_end, now), resolution)
            /\ total_api_calls' = 0
            /\ klines' = <<>>
  /\ UNCHANGED <<inputVars, pureVars, error_count, status_obj, status_calls,
                 store_calls, stored, result, requests, req, outcome,
                 reset_hdr, clock, wait_time, windows, windowErrors,
                 overBudget, nTransient, nRateLimited>>

\* the loop test of line 157
InLoop == pc = "loop" /\ curr_date < end_date

\* mutant: status_update is not called
EmitStatus_Silent(status) == UNCHANGED <<status_obj, status_calls>>

\* status_update(status_obj), lines 244 and 256
EmitStatus(status) ==
  /\ status_obj' = status
  /\ status_calls' = status_calls + 1

\* the call store_func(kline_df, symbol, "delta") of line 228 binds its
\* arguments to the parameters of store_func; if not, it raises TypeError
StoreCallBinds(params) == params = STORE_ARGS

\* lines 219-245 for an iteration that left the try block: the checkpoint
\* every 30 calls (store_func may raise, which ends the call), then the
\* status record, whose divisions may raise
AfterTry(total, rows) ==
  LET status == [perc_complete |-> PercComplete(total, num_calls),
                 call_count |-> total,
                 total_calls |-> num_calls]
      checkpoint == total % CHECKPOINT_EVERY = 0
      binds == StoreCallBinds(store_params)
  IN  \E store_ok \in IF ~checkpoint THEN {TRUE}
                      ELSE IF binds THEN BOOLEAN ELSE {FALSE} :
        IF ~store_ok
          THEN /\ pc' = PcAfterStore(FALSE)
               /\ raised' = IF binds THEN "StoreError" ELSE "TypeError"
               /\ UNCHANGED <<stored, store_calls, status_obj, status_calls>>
          ELSE /\ IF checkpoint
                    THEN /\ stored' = delta_kline_to_df(rows)
                         /\ store_calls' = store_calls + 1
                    ELSE UNCHANGED <<stored, store_calls>>
               /\ IF DivisionRaises(total, num_calls)
                    THEN /\ pc' = "raised"
                         /\ raised' = "ZeroDivisionError"
                         /\ UNCHANGED <<status_obj, status_calls>>
                    ELSE /\ EmitStatus(status)
                         /\ pc' = PcAfterStore(TRUE)
                         /\ raised' = raised

\* one iteration of lines 157-245 whose request is answered with HTTP 200
\* (success true or false) or with a status other than 200 and 429
Respond(o) ==
  LET next_end_date == NextEndDate(curr_date, end_date, resolution)
      start_timestamp == Timestamp(curr_date)
      end_timestamp == Timestamp(next_end_date)
      total == total_api_calls + 1
      ec == ErrorCountAfter(o)
      rows == BufferAfter(o, klines,
                          Candles(start_timestamp, end_timestamp, candles))
      werr == IF o = "Success" THEN 0 ELSE windowErrors + 1
  IN  /\ InLoop
      /\ requests' = requests + 1
      /\ req' = [start |-> start_timestamp, end |-> end_timestamp]
      /\ outcome' = o
      /\ total_api_calls' = total
      /\ error_count' = ec
      /\ klines' = rows
      /\ curr_date' = CursorAfter(o, curr_date, next_end_date)
      /\ windows' = IF o = "Success"
                      THEN Append(windows, [start |-> curr_date,
                                            end |-> next_end_date])
                      ELSE windows
      /\ windowErrors' = werr
      /\ overBudget' = (overBudget \/ werr > ERROR_BUDGET)
      /\ nTransient' = IF o = "Success" THEN nTransient ELSE nTransient + 1
      /\ IF BudgetExceeded(ec)
           THEN /\ pc' = "broke"
                /\ UNCHANGED <<stored, store_calls, status_obj, status_calls,
                               raised>>
           ELSE AfterTry(total, rows)
      /\ reset_hdr' = NoHeader
      /\ clock' = 0
      /\ wait_time' = 0
      /\ UNCHANGED <<inputVars, pureVars, end_date, num_calls, result, nRateLimited>>

\* HTTP 200, success true: lines 183-189
Success == InLoop /\ Respond("Success")

\* HTTP 200, success false: lines 190-193
ApiError == nTransient < MaxTransient /\ Respond("ApiError")

\* a status other than 200 and 429: lines 208-210
HttpError == nTransient < MaxTransient /\ Respond("HttpError")

\* HTTP 429: lines 195-206, the wait and `continue`
RateLimited ==
  /\ InLoop
  /\ nRateLimited < MaxRateLimited
  /\ \E hdr \in ResetHeaders, t \in Clocks :
       LET next_end_date == NextEndDate(curr_date, end_date, resolution)
       IN  /\ requests' = requests + 1
           /\ req' = [start |-> Timestamp(curr_date),
                      end |-> Timestamp(next_end_date)]
           /\ outcome' = "RateLimited"
           /\ total_api_calls' = total_api_calls + 1
           /\ error_count' = ErrorCountAfter("RateLimited")
           /\ reset_hdr' = hdr
           /\ clock' = IF hdr.present THEN t ELSE 0
           /\ wait_time' = RateLimitWait(hdr, t)
           /\ curr_date' = CursorAfter("RateLimited", curr_date, next_end_date)
  /\ nRateLimited' = nRateLimited + 1
  /\ pc' = "loop"
  /\ UNCHANGED <<inputVars, pureVars, end_date, num_calls, klines, status_obj,
                 status_calls, store_calls, stored, result, raised, windows,
                 windowErrors, overBudget, nTransient>>

\* requests.get raises (no response): the handler of lines 215-217 breaks
NetworkException ==
  /\ InLoop
  /\ requests' = requests + 1
  /\ req' = [start |-> Timestamp(curr_date),
             end |-> Timestamp(NextEndDate(curr_date, end_date, resolution))]
  /\ outcome' = "NetworkException"
  /\ pc' = "broke"
  /\ reset_hdr' = NoHeader
  /\ clock' = 0
  /\ wait_time' = 0
  /\ UNCHANGED <<inputVars, pureVars, end_date, curr_date, num_calls, total_api_calls,
                 error_count, klines, status_obj, status_calls, store_calls,
                 stored, result, raised, windows, windowErrors, overBudget,
                 nTransient, nRateLimited>>

\* the record status_update gets at lines 248-256
TerminalStatus ==
  [perc_complete |-> 10000,
   call_count |-> total_api_calls,
   total_calls |-> total_api_calls]

\* lines 247-259, after the loop ended or was broken: the final status
\* record and the return of the normalised rows
Finish ==
  /\ (pc = "loop" /\ ~(curr_date < end_date)) \/ pc = "broke"
  /\ EmitStatus(TerminalStatus)
  /\ result' = delta_kline_to_df(klines)
  /\ pc' = "returned"
  /\ UNCHANGED <<inputVars, pureVars, end_date, curr_date, num_calls, total_api_calls,
                 error_count, klines, store_calls, stored, raised, requests,
                 req, outcome, reset_hdr, clock, wait_time, windows,
                 windowErrors, overBudget, nTransient, nRateLimited>>

Next ==
  \/ Call
  \/ Success
  \/ ApiError
  \/ HttpError
  \/ RateLimited
  \/ NetworkException
  \/ Finish

Spec == Init /\ [][Next]_vars

(* ------------------- the fetch with its scheduling -------------------- *)

\* ranges of one and of two windows of resolution 1m
LiveEnds == {60000 * Second, 2 * 60000 * Second}

LiveInit ==
  /\ resolution = "1m"
  /\ start_date = 0
  /\ in_end \in LiveEnds
  /\ now = 3000 * Hour
  /\ candles \in 0..MaxCandles
  /\ store_params = STORE_ARGS
  /\ FetchStart
  /\ PureIdle

\* one iteration of lines 157-245 answered with a TransientError after
\* MaxTransient of them: pc, the cursor, the buffer and error_count are
\* those of Respond; the counters requests, total_api_calls, status_calls
\* and nTransient stay at the values they have at the bound, and with them
\* the status record and the checkpoint
TransientAgain ==
  /\ InLoop
  /\ nTransient = MaxTransient
  /\ \E o \in {"ApiError", "HttpError"} :
       LET next_end_date == NextEndDate(curr_date, end_date, resolution)
           start_timestamp == Timestamp(curr_date)
           end_timestamp == Timestamp(next_end_date)
           ec == ErrorCountAfter(o)
       IN  /\ outcome' = o
           /\ req' = [start |-> start_timestamp, end |-> end_timestamp]
           /\ error_count' = ec
           /\ klines' = BufferAfter(o, klines,
                          Candles(start_timestamp, end_timestamp, candles))
           /\ curr_date' = CursorAfter(o, curr_date, next_end_date)
           /\ pc' = IF BudgetExceeded(ec) THEN "broke" ELSE "loop"
  /\ windowErrors' = Min(windowErrors + 1, ERROR_BUDGET + 1)
  /\ overBudget' = (overBudget \/ windowErrors + 1 > ERROR_BUDGET)
  /\ reset_hdr' = NoHeader
  /\ clock' = 0
  /\ wait_time' = 0
  /\ UNCHANGED <<inputVars, pureVars, end_date, num_calls, total_api_calls,
                 status_obj, status_calls, store_calls, stored, result,
                 raised, requests, windows, nTransient, nRateLimited>>

LiveNext ==
  \/ Call
  \/ Success
  \/ ApiError
  \/ HttpError
  \/ RateLimited
  \/ NetworkException
  \/ Finish
  \/ TransientAgain

\* one thread runs the function: its next step is taken, every request
\* being answered or raising
SpecLive == LiveInit /\ [][LiveNext]_vars /\ WF_vars(LiveNext)

(* -------------------- the fetch with default hooks ------------------- *)

\* get_delta_klines, or get_delta_klines_legacy (lines 325-333, which hands
\* on defaults of the same shape), called without store_func
DefaultInit ==
  /\ resolution \in Resolutions
  /\ start_date \in Starts
  /\ in_end \in Ends
  /\ start_date < in_end
  /\ now \in Nows
  /\ candles \in 0..MaxCandles
  /\ store_params = DEFAULT_STORE_PARAMS
  /\ InputFits(resolution, start_date, in_end, now)
  /\ FetchStart
  /\ PureIdle

SpecDefault == DefaultInit /\ [][Next]_vars

(* ---------------------- delta_kline_to_df alone ----------------------- *)

\* longest list of raw rows given to delta_kline_to_df
MaxRows == 3

\* raw rows: a time (unix seconds) and one more field
RowValues == {<<100, 1>>, <<100, 2>>, <<200, 1>>, <<200, 2>>}

RawLists ==
  UNION {[1..n -> RowValues] : n \in 0..MaxRows}

\* the variables of get_delta_klines while a pure function runs alone
FetchIdle ==
  /\ resolution = "1m"
  /\ start_date = 0
  /\ in_end = 2
  /\ now = 2
  /\ candles = 0
  /\ store_params = STORE_ARGS
  /\ FetchStart

NormInit ==
  /\ FetchIdle
  /\ stage = "raw"
  /\ raw_rows \in RawLists
  /\ series = <<>>
  /\ series_again = <<>>
  /\ api_delay = API_DELAY_MS
  /\ random_draw = 0
  /\ sleeper = 0

\* delta_kline_to_df(klines), lines 262-290
Normalize ==
  /\ stage = "raw"
  /\ series' = delta_kline_to_df(raw_rows)
  /\ stage' = "normalized"
  /\ UNCHANGED <<raw_rows, series_again, api_delay, random_draw, sleeper>>
  /\ UNCHANGED <<inputVars, pc, end_date, curr_date, num_calls,
                 total_api_calls, error_count, klines, status_obj,
                 status_calls, store_calls, stored, result, raised, requests,
                 req, outcome, reset_hdr, clock, wait_time, windows,
                 windowErrors, overBudget, nTransient, nRateLimited>>

\* delta_kline_to_df again, on the rows of the series it returned
Renormalize ==
  /\ stage = "normalized"
  /\ series_again' = delta_kline_to_df(RawRowsOf(series))
  /\ stage' = "renormalized"
  /\ UNCHANGED <<raw_rows, series, api_delay, random_draw, sleeper>>
  /\ UNCHANGED <<inputVars, pc, end_date, curr_date, num_calls,
                 total_api_calls, error_count, klines, status_obj,
                 status_calls, store_calls, stored, result, raised, requests,
                 req, outcome, reset_hdr, clock, wait_time, windows,
                 windowErrors, overBudget, nTransient, nRateLimited>>

NormNext ==
  \/ Normalize
  \/ Renormalize

SpecNorm == NormInit /\ [][NormNext]_vars

(* --------------------------- the pacing alone -------------------------- *)

\* API_DELAY values, milliseconds
ApiDelays == {0, 50, 100, API_DELAY_MS, 1000}

\* random.random() values, thousandths
RandomDraws == {0, 333, 500, 999}

\* total_api_calls of the iteration
PaceTotals == {1, 29, 30, 31, 60}

PaceInit ==
  /\ resolution = "1m"
  /\ start_date = 0
  /\ in_end = 2
  /\ now = 2
  /\ candles = 0
  /\ store_params = STORE_ARGS
  /\ pc = "loop"
  /\ end_date = in_end
  /\ curr_date = start_date
  /\ num_calls = 0
  /\ total_api_calls \in PaceTotals
  /\ error_count = 0
  /\ klines = <<>>
  /\ status_obj = NoStatus
  /\ status_calls = 0
  /\ store_calls = 0
  /\ stored = <<>>
  /\ result = <<>>
  /\ raised = "none"
  /\ requests = 0
  /\ req = [start |-> 0, end |-> 0]
  /\ outcome = "Success"
  /\ reset_hdr = NoHeader
  /\ clock = 0
  /\ wait_time = 0
  /\ windows = <<>>
  /\ windowErrors = 0
  /\ overBudget = FALSE
  /\ nTransient = 0
  /\ nRateLimited = 0
  /\ stage = "draw"
  /\ raw_rows = <<>>
  /\ series = <<>>
  /\ series_again = <<>>
  /\ api_delay \in ApiDelays
  /\ random_draw \in RandomDraws
  /\ sleeper = 0

\* lines 219-226 and 245: the delay of an iteration that left the try block
Pace ==
  /\ stage = "draw"
  /\ \E extra \in 1..MAX_EXTRA :
       sleeper' = Sleeper(random_draw, api_delay, total_api_calls, extra)
  /\ stage' = "paced"
  /\ UNCHANGED <<raw_rows, series, series_again, api_delay, random_draw>>
  /\ UNCHANGED <<inputVars, pc, end_date, curr_date, num_calls,
                 total_api_calls, error_count, klines, status_obj,
                 status_calls, store_calls, stored, result, raised, requests,
                 req, outcome, reset_hdr, clock, wait_time, windows,
                 windowErrors, overBudget, nTransient, nRateLimited>>

PaceNext == Pace

SpecPace == PaceInit /\ [][PaceNext]_vars

(* ------------------------------- claims ------------------------------- *)

\* the call is over: it returned or raised
Ended == pc \in {"returned", "raised"}

\* the loop ran until the cursor reached the clamped end
Completed == pc \in {"loop", "returned"} /\ ~(curr_date < end_date)

\* the last request ended in a TransientError (HTTP 200 with success false,
\* or a status other than 200 and 429)
LastWasTransient == outcome \in {"ApiError", "HttpError"}

\* where the cursor has to be: the end of the last window fetched
CursorHome ==
  IF windows = <<>> THEN start_date ELSE windows[Len(windows)].end

\* C1: once the current window has had 4 TransientError responses in a row
\* the fetch is aborted: it is no longer in the loop, so no further request
\* is issued for this window or a later one.
C1_AbortsAfterFourTransientErrors ==
  (LastWasTransient /\ windowErrors > ERROR_BUDGET) => pc # "loop"

\* C2: the error budget is per window: a fetch in which no window has had
\* more than 3 TransientError responses is never aborted.
C2_NoAbortWithinWindowBudget ==
  ~overBudget => pc # "broke"

\* C3: a network-level exception of a request counts as one TransientError:
\* while the window's budget of 3 is not exceeded the fetch stays in the
\* loop, the cursor on the same window.
C3_NetworkExceptionIsRetried ==
  (outcome = "NetworkException" /\ windowErrors + 1 <= ERROR_BUDGET)
    => (pc = "loop" /\ curr_date = CursorHome)

\* C4: a call that returns normally has fetched every window up to the
\* clamped end; a fetch that stopped earlier surfaces its error instead.
C4_NormalReturnMeansComplete ==
  pc = "returned" => ~(curr_date < end_date)

\* C5: an HTTP 429 leaves the cursor where it was, does not increment the
\* error counter, and never ends the fetch or surfaces an error: the fetch
\* stays in the loop on the same window.
C5_RateLimitedRetriesSameWindow ==
  [][(requests' = requests + 1 /\ outcome' = "RateLimited")
       => /\ curr_date' = curr_date
          /\ error_count' <= error_count
          /\ windowErrors' = windowErrors
          /\ pc' = "loop"
          /\ curr_date' < end_date'
          /\ raised' = "none"
          /\ req'.start = Timestamp(curr_date')]_vars

\* C5 witness: the fetch is still going after two HTTP 429 responses
C5_Witness ==
  /\ outcome = "RateLimited"
  /\ nRateLimited >= 2
  /\ pc = "loop"
  /\ windows # <<>>

\* C6: the wait after an HTTP 429 is max(reset - now, 0) seconds with the
\* X-RATE-LIMIT-RESET header (reset = now + 5 waits 5 s, a reset in the
\* past waits 0 s) and 60 seconds without it.
C6_RateLimitWait ==
  outcome = "RateLimited" =>
    /\ reset_hdr.present => wait_time = Max(reset_hdr.value - clock, 0)
    /\ (reset_hdr.present /\ reset_hdr.value = clock + 5) => wait_time = 5
    /\ (reset_hdr.present /\ reset_hdr.value < clock) => wait_time = 0
    /\ ~reset_hdr.present => wait_time = 60

\* C6 witness: a 429 whose header names a time 5 s ahead was waited 5 s
C6_Witness ==
  /\ outcome = "RateLimited"
  /\ reset_hdr.present
  /\ reset_hdr.value = clock + 5
  /\ wait_time = 5

\* C7: with a resolution outside the supported set the call fails with an
\* error before any request, status_update or store_func call.
C7_UnsupportedResolutionFailsFirst ==
  resolution \notin SUPPORTED_TIMEFRAMES =>
    /\ pc \in {"start", "raised"}
    /\ pc = "raised" => raised = "ValueError"
    /\ requests = 0
    /\ status_calls = 0
    /\ store_calls = 0

\* C7 witness: the call with the token "7m" has raised
C7_Witness ==
  /\ resolution = "7m"
  /\ pc = "raised"
  /\ raised = "ValueError"

\* C8: the windows fetched are in chronological order, contiguous (each
\* starts where the one before ended, the first at start), non-overlapping,
\* non-empty and no longer than resolutionMinutes x maxCandles; every
\* request is for the window at the cursor; and a fetch that ran to
\* completion covers exactly [start, clampedEnd).
C8_WindowsCoverRange ==
  /\ \A i \in 1..Len(windows) :
       /\ windows[i].start < windows[i].end
       /\ windows[i].end - windows[i].start
            <= _resolution_to_minutes(resolution) * 1000 * 60 * TicksPerSecond
       /\ windows[i].start = IF i = 1 THEN start_date ELSE windows[i - 1].end
  /\ pc \in {"loop", "broke", "returned"} => curr_date = CursorHome
  /\ (requests > 0 /\ outcome = "Success") =>
       req = [start |-> Timestamp(windows[Len(windows)].start),
              end |-> Timestamp(windows[Len(windows)].end)]
  /\ (requests > 0 /\ outcome # "Success") =>
       req.start = Timestamp(CursorHome)
  /\ Completed =>
       IF windows = <<>>
         THEN ~(start_date < end_date)
         ELSE windows[Len(windows)].end = end_date

\* C8 witness: a completed fetch of three windows, the last one truncated
C8_Witness ==
  /\ pc = "returned"
  /\ Completed
  /\ Len(windows) = 3
  /\ windows[3].end - windows[3].start < TimeIncrement(resolution)
  /\ windows[1].end - windows[1].start = TimeIncrement(resolution)

\* a completed fetch of the range of 2001 hours at "1h"
Scenario2001 ==
  /\ resolution = "1h"
  /\ start_date = 0
  /\ in_end = 2001 * Hour
  /\ end_date = in_end
  /\ Completed

\* C9 as amended: a completed fetch has produced max(num_calls, 0) windows,
\* num_calls = ceil((clampedEnd - start) / windowLength), which is the
\* number of windows whenever start is before the clamped end; 2001 hours
\* at "1h" give 3 windows of 1000, 1000 and 1 hours and num_calls = 3.
C9_WindowCount ==
  /\ Completed => Len(windows) = Max(num_calls, 0)
  /\ (Completed /\ start_date < end_date) => Len(windows) = num_calls
  /\ Scenario2001 =>
       /\ num_calls = 3
       /\ Len(windows) = 3
       /\ windows[1].end - windows[1].start = 1000 * Hour
       /\ windows[2].end - windows[2].start = 1000 * Hour
       /\ windows[3].end - windows[3].start = 1 * Hour

\* C9 witness: the scenario of 2001 hours has returned
C9_Witness ==
  /\ Scenario2001
  /\ pc = "returned"
  /\ Len(windows) = 3
  /\ num_calls = 3

\* C9 as stated: the number of windows of a completed fetch equals
\* expectedCount (num_calls), give or take 1.
C9_Original ==
  Completed =>
    /\ Len(windows) - num_calls <= 1
    /\ num_calls - Len(windows) <= 1

\* C10 as amended: an end in the future is clamped to now, no request has
\* an end parameter later than now, and the cursor is never later than the
\* later of start and the clamped end; it is later than the clamped end
\* only when start is, and then no request is issued.
C10_NoRequestBeyondNow ==
  pc \in {"loop", "broke", "returned"} =>
    /\ in_end > now => end_date <= now
    /\ requests > 0 => req.end * TicksPerSecond <= now
    /\ requests > 0 => req.end * TicksPerSecond <= end_date
    /\ curr_date <= Max(start_date, end_date)
    /\ curr_date > end_date => (requests = 0 /\ curr_date = start_date)

\* C10 witness: a fetch whose end was in the future has returned after
\* requests up to the clamped end
C10_Witness ==
  /\ in_end > now
  /\ pc = "returned"
  /\ requests > 1
  /\ end_date = FloorMinute(now)
  /\ curr_date = end_date

\* C10 as stated: no request ends later than now and the cursor is never
\* later than the clamped end.
C10_Original ==
  pc \in {"loop", "broke", "returned"} =>
    /\ requests > 0 => req.end * TicksPerSecond <= now
    /\ curr_date <= end_date

\* C11: perc_complete never decreases from one status record to the next,
\* retries included, and the last record of a call that returned has 100.
C11_PercCompleteMonotone ==
  [][/\ status_calls' > status_calls
          => status_obj'.perc_complete >= status_obj.perc_complete
     /\ pc' = "returned" => status_obj'.perc_complete = 10000]_vars

\* C12 as amended: status_update is called once after each request that
\* ends in Success or in an HTTP TransientError, not after an HTTP 429 nor
\* after a request that raised, and once more, last, with the terminal
\* record when the call returns; a store_func exception ends the call
\* before the record of its iteration.
C12_StatusCalls ==
  /\ pc \in {"loop", "broke"} => status_calls = Len(windows) + nTransient
  /\ (pc = "loop" /\ outcome \in {"Success", "ApiError", "HttpError"})
       => status_obj.call_count = total_api_calls
  /\ pc = "returned" =>
       /\ status_calls = Len(windows) + nTransient + 1
       /\ status_obj = TerminalStatus
  /\ raised = "StoreError" => status_calls = Len(windows) + nTransient - 1
  /\ raised = "ValueError" => status_calls = 0

\* C12 witness: a call that had all three kinds of response has returned
C12_Witness ==
  /\ pc = "returned"
  /\ nRateLimited > 0
  /\ nTransient > 0
  /\ Len(windows) > 0
  /\ status_calls = Len(windows) + nTransient + 1

\* C12 as stated: one status_update call for every request that ended in
\* Success, TransientError or RateLimited, and one more when the call
\* returns.
C12_Original ==
  /\ pc = "loop" => status_calls = Len(windows) + nTransient + nRateLimited
  /\ pc = "returned" /\ outcome # "NetworkException"
       => status_calls = Len(windows) + nTransient + nRateLimited + 1

\* C13: store_func has been called once for every 30 successful requests,
\* whatever the number of RateLimited and TransientError responses.
C13_CheckpointEvery30Successes ==
  pc \in {"loop", "broke", "returned"} => store_calls = Len(windows) \div 30

\* C14: an exception of store_func leaves the call at once: it reaches the
\* caller, the status record of the iteration and the terminal record are
\* not emitted, and nothing is requested, stored or reported afterwards.
C14_StoreErrorIsFatal ==
  [][/\ (raised' = "StoreError" /\ raised # "StoreError")
          => /\ pc' = "raised"
             /\ status_calls' = status_calls
             /\ store_calls' = store_calls
     /\ raised = "StoreError"
          => /\ pc = "raised"
             /\ UNCHANGED <<pc, requests, status_calls, store_calls,
                            total_api_calls, result>>]_vars

\* C14 witness: store_func raised at the checkpoint of the 30th call
C14_Witness ==
  /\ raised = "StoreError"
  /\ pc = "raised"
  /\ total_api_calls = 30
  /\ status_calls = 29
  /\ store_calls = 0

\* delta_kline_to_df has returned for raw_rows
Normalized == stage \in {"normalized", "renormalized"}

\* C15: for non-empty raw rows in any order, rows of one timestamp that
\* differ in another field included, the series has unique timestamps in
\* strictly ascending order.
C15_StrictlyAscending ==
  (Normalized /\ raw_rows # <<>>) =>
    \A i \in 1..(Len(series) - 1) : series[i].index < series[i + 1].index

\* the raw rows with the times 100, 200, 100, the two rows of 100 equal
Rows100_200_100 == <<<<100, 1>>, <<200, 1>>, <<100, 1>>>>

\* C16: the series has one entry for every distinct raw row and no other,
\* so one exact duplicate gives one entry fewer than rows; the rows 100,
\* 200, 100 give the two entries 100, 200; no rows give an empty series.
C16_ExactDuplicatesOnly ==
  Normalized =>
    /\ Len(series) = Cardinality({raw_rows[i] : i \in 1..Len(raw_rows)})
    /\ {<<series[i].index, series[i].close>> : i \in 1..Len(series)}
         = {<<raw_rows[i][1] * TicksPerSecond, raw_rows[i][2]>> :
              i \in 1..Len(raw_rows)}
    /\ raw_rows = Rows100_200_100 =>
         series = <<[index |-> 100 * TicksPerSecond, close |-> 1],
                    [index |-> 200 * TicksPerSecond, close |-> 1]>>
    /\ raw_rows = <<>> => series = <<>>

\* C16 witness: the rows 100, 200, 100 normalised to two entries
C16_Witness ==
  /\ stage = "normalized"
  /\ raw_rows = Rows100_200_100
  /\ Len(series) = Len(raw_rows) - 1

PaceCheckpoint == total_api_calls % 30 = 0

\* C18 as amended: the delay is never below 0.1 s; without a checkpoint it
\* is below 0.1 s + API_DELAY (exactly 0.1 s for API_DELAY = 0); at a
\* checkpoint 1, 2 or 3 s are added to such a delay.
C18_PacingDelay ==
  stage = "paced" =>
    /\ sleeper >= 100000
    /\ (~PaceCheckpoint /\ api_delay > 0)
         => sleeper < 100000 + api_delay * 1000
    /\ (~PaceCheckpoint /\ api_delay = 0) => sleeper = 100000
    /\ PaceCheckpoint =>
         \E k \in 1..3 :
           /\ sleeper - k * 1000000 >= 100000
           /\ sleeper - k * 1000000 <= 100000 + api_delay * 1000

\* C18 witness: the delay of a checkpoint iteration with API_DELAY 0.3 s
C18_Witness ==
  /\ stage = "paced"
  /\ PaceCheckpoint
  /\ api_delay = 300
  /\ sleeper >= 1100000

\* C18 as stated: the delay lies in [0.1 s, 0.1 s + API_DELAY) on every
\* iteration, checkpoint iterations included.
C18_Original ==
  stage = "paced" =>
    /\ sleeper >= 100000
    /\ sleeper < 100000 + api_delay * 1000

\* C19: no status record is computed with total_api_calls or num_calls 0:
\* the loop is entered only with num_calls >= 1, the records computed in
\* the loop have call_count >= 1 and total_calls >= 1, and no division
\* raises, also when the very first request fails.
C19_NoDivisionByZero ==
  /\ raised # "ZeroDivisionError"
  /\ InLoop => num_calls >= 1
  /\ (status_calls > 0 /\ pc # "returned")
       => (status_obj.call_count >= 1 /\ status_obj.total_calls >= 1)

\* C19 witness: the record after a first request that failed
C19_Witness ==
  /\ requests = 1
  /\ LastWasTransient
  /\ status_calls = 1
  /\ status_obj.call_count = 1
  /\ status_obj.total_calls >= 1

\* the rows of the successful responses for the windows ws, in order
RowsOf(ws) ==
  [k \in 1..(Len(ws) * candles) |->
     LET w == ws[((k - 1) \div candles) + 1]
     IN  Candles(Timestamp(w.start), Timestamp(w.end),
                 candles)[((k - 1) % candles) + 1]]

\* C20: the buffer and the cursor change on a Success only, which appends
\* the rows of its response and puts the cursor on the end of its window;
\* every other outcome leaves both; the cursor never goes back, the buffer
\* never loses a row, and the series returned is the normalisation of the
\* rows of all successful responses.
C20_BufferAndCursorFrame ==
  [][/\ curr_date' >= curr_date
     /\ Len(klines') >= Len(klines)
     /\ SubSeq(klines', 1, Len(klines)) = klines
     /\ (klines' # klines \/ curr_date' # curr_date)
          => (requests' = requests + 1 /\ outcome' = "Success")
     /\ (requests' = requests + 1 /\ outcome' = "Success")
          => /\ klines' = klines \o Candles(req'.start, req'.end, candles)
             /\ curr_date' = windows'[Len(windows')].end
             /\ curr_date' > curr_date
             /\ req'.end = Timestamp(curr_date')
     /\ (requests' = requests + 1 /\ outcome' # "Success")
          => (klines' = klines /\ curr_date' = curr_date)
     /\ klines' = RowsOf(windows')
     /\ pc' = "returned" => result' = delta_kline_to_df(RowsOf(windows'))]_vars

\* C20 witness: a call with failed, rate-limited and successful requests
\* has returned a series shorter than its buffer
C20_Witness ==
  /\ pc = "returned"
  /\ Len(windows) >= 2
  /\ nTransient > 0
  /\ nRateLimited > 0
  /\ Len(klines) = 2 * Len(windows)
  /\ result # <<>>
  /\ Len(result) < Len(klines)

\* C21: every call of get_delta_klines ends (it returns or raises), the
\* HTTP 429 responses of a call being finitely many (at most
\* MaxRateLimited), also when every request for some window is answered
\* with a TransientError.
C21_Terminates == <>Ended

\* every request of the call so far was answered with Success
AllSucceeded ==
  /\ nTransient = 0
  /\ nRateLimited = 0
  /\ outcome \notin {"ApiError", "HttpError", "RateLimited", "NetworkException"}

\* C22: with the default hooks a fetch of a supported resolution in which
\* every request succeeds does not raise, whatever the number of windows,
\* the runs that reach the checkpoint of the 30th call included, and what
\* it returns is the normalised series of the rows fetched.
C22_DefaultHooksAreNoOps ==
  (store_params = 2 /\ resolution \in SUPPORTED_TIMEFRAMES /\ AllSucceeded) =>
    /\ raised = "none"
    /\ pc # "raised"
    /\ pc = "returned" => result = delta_kline_to_df(klines)

=============================================================================
